---- MODULE Spec2Model ----
(***************************************************************************)
(* Reduction of a stochastic parity game (SPG) to a simple stochastic game *)
(* (SSG): precision analysis, alpha derivation and graph transformation of *)
(* src/src/spg_to_ssg_reduction.py, under exact (rational) arithmetic.     *)
(***************************************************************************)
EXTENDS Integers, Sequences, FiniteSets, TLC

(***************************************************************************)
(* Exact arithmetic.  Python's int is unbounded and fractions.Fraction is  *)
(* an exact rational.  A natural number is a little-endian sequence of     *)
(* digits in base Base without leading zero digits (zero is <<>>); an      *)
(* integer is a sign and a magnitude; a rational is an integer numerator   *)
(* over a positive natural denominator, compared by value (QEq, QLess).    *)
(***************************************************************************)
Base == 10 * 1000

\* a digit sequence without its leading zero digits
NTrim(a) ==
    LET nz == {k \in DOMAIN a : a[k] # 0}
    IN  IF nz = {} THEN <<>>
        ELSE SubSeq(a, 1, CHOOSE m \in nz : \A k \in nz : k <= m)

RECURSIVE NFromInt(_)
NFromInt(n) == IF n = 0 THEN <<>> ELSE <<n % Base>> \o NFromInt(n \div Base)

Digit(a, i) == IF i >= 1 /\ i <= Len(a) THEN a[i] ELSE 0

\* the digits of the number that d denotes when its entries may lie outside
\* 0..Base-1: every entry passes its carry (or borrow) to the next one
\* until none is left; the last entry of d never has to pass one on
RECURSIVE NCarry(_)
NCarry(d) ==
    IF \A k \in DOMAIN d : d[k] >= 0 /\ d[k] < Base THEN d
    ELSE NCarry([k \in DOMAIN d |->
                    (d[k] % Base) + (IF k > 1 THEN d[k - 1] \div Base ELSE 0)])

NAdd(a, b) ==
    LET n == IF Len(a) > Len(b) THEN Len(a) ELSE Len(b)
    IN  NTrim(NCarry([k \in 1..(n + 1) |-> Digit(a, k) + Digit(b, k)]))

\* a - b for a >= b
NSub(a, b) == NTrim(NCarry([k \in 1..Len(a) |-> a[k] - Digit(b, k)]))

\* f[lo] + ... + f[hi]
RECURSIVE NSum(_, _, _)
NSum(f, lo, hi) ==
    IF lo > hi THEN 0
    ELSE IF lo = hi THEN f[lo]
    ELSE LET mid == (lo + hi) \div 2 IN NSum(f, lo, mid) + NSum(f, mid + 1, hi)

\* entry k of the product: the low parts of the digit products a[i] * b[j]
\* with i + j = k + 1, and the high parts of those with i + j = k
NColumn(a, b, k) ==
    NSum([i \in 1..Len(a) |-> ((a[i] * Digit(b, k + 1 - i)) % Base)
                              + ((a[i] * Digit(b, k - i)) \div Base)],
         1, Len(a))

NMul(a, b) ==
    IF a = <<>> \/ b = <<>> THEN <<>>
    ELSE NTrim(NCarry([k \in 1..(Len(a) + Len(b)) |-> NColumn(a, b, k)]))

NLess(a, b) ==
    IF Len(a) # Len(b) THEN Len(a) < Len(b)
    ELSE LET df == {k \in 1..Len(a) : a[k] # b[k]}
         IN  df # {} /\ LET m == CHOOSE m \in df : \A k \in df : k <= m
                        IN  a[m] < b[m]

RECURSIVE NPow(_, _)
NPow(a, k) ==
    IF k = 0 THEN <<1>>
    ELSE LET h == NPow(a, k \div 2)
             s == NMul(h, h)
         IN  IF k % 2 = 0 THEN s ELSE NMul(a, s)

\* integers: [neg, mag], zero is never negative
ZMake(neg, mag) == [neg |-> neg /\ mag # <<>>, mag |-> mag]
ZFromInt(n) == IF n < 0 THEN ZMake(TRUE, NFromInt(-n)) ELSE ZMake(FALSE, NFromInt(n))
ZNeg(x) == ZMake(~x.neg, x.mag)
ZAdd(x, y) ==
    IF x.neg = y.neg THEN ZMake(x.neg, NAdd(x.mag, y.mag))
    ELSE IF NLess(x.mag, y.mag) THEN ZMake(y.neg, NSub(y.mag, x.mag))
    ELSE ZMake(x.neg, NSub(x.mag, y.mag))
ZMul(x, y) == ZMake(x.neg # y.neg, NMul(x.mag, y.mag))
ZLess(x, y) ==
    IF x.neg # y.neg THEN x.neg
    ELSE IF x.neg THEN NLess(y.mag, x.mag) ELSE NLess(x.mag, y.mag)

\* rationals: [num, den], den a positive natural
QMake(num, den) == [num |-> num, den |-> den]
QFromInt(n) == QMake(ZFromInt(n), <<1>>)
Frac(p, q) == QMake(ZFromInt(p), NFromInt(q))
QZero == QFromInt(0)
QOne == QFromInt(1)
QAdd(x, y) ==
    QMake(ZAdd(ZMul(x.num, ZMake(FALSE, y.den)), ZMul(y.num, ZMake(FALSE, x.den))),
          NMul(x.den, y.den))
QSub(x, y) == QAdd(x, QMake(ZNeg(y.num), y.den))
QMul(x, y) == QMake(ZMul(x.num, y.num), NMul(x.den, y.den))
QIsZero(x) == x.num.mag = <<>>
\* x / y for y # 0
QDiv(x, y) ==
    QMake(ZMake(x.num.neg # y.num.neg, NMul(x.num.mag, y.den)),
          NMul(x.den, y.num.mag))
RECURSIVE QPow(_, _)
QPow(x, k) ==
    IF k = 0 THEN QOne
    ELSE LET h == QPow(x, k \div 2)
             s == QMul(h, h)
         IN  IF k % 2 = 0 THEN s ELSE QMul(x, s)
QLess(x, y) == ZLess(ZMul(x.num, ZMake(FALSE, y.den)), ZMul(y.num, ZMake(FALSE, x.den)))
QEq(x, y) == ~QLess(x, y) /\ ~QLess(y, x)
QLeq(x, y) == ~QLess(y, x)

(***************************************************************************)
(* Helpers for Python containers: a dict is kept as the sequence of its    *)
(* entries in insertion order (spg.vertices, spg.transitions) or as a      *)
(* function over its key set (the dicts spg_to_ssg builds).                *)
(***************************************************************************)
Range(s) == {s[i] : i \in DOMAIN s}

MinOf(S) == CHOOSE x \in S : \A y \in S : x <= y
MaxOf(S) == CHOOSE x \in S : \A y \in S : y <= x

\* sorted(S) for a set of integers
RECURSIVE Sorted(_)
Sorted(S) == IF S = {} THEN <<>> ELSE LET m == MinOf(S) IN <<m>> \o Sorted(S \ {m})

RECURSIVE NToInt(_)
NToInt(a) == IF a = <<>> THEN 0 ELSE a[1] + Base * NToInt(Tail(a))

RECURSIVE Gcd(_, _)
Gcd(a, b) == IF b = 0 THEN a ELSE Gcd(b, a % b)

Abs(x) == IF x < 0 THEN -x ELSE x

\* Fraction(p, q): the rational p/q in lowest terms (p >= 0, q > 0)
Fraction(p, q) == LET g == Gcd(p, q) IN Frac(p \div g, q \div g)

\* min(...) of a non-empty set of probabilities
QMin(S) == CHOOSE x \in S : \A y \in S : QLeq(x, y)

\* math.factorial(n), an integer of any size
RECURSIVE Factorial(_)
Factorial(n) == IF n = 0 THEN NFromInt(1) ELSE NMul(NFromInt(n), Factorial(n - 1))

(***************************************************************************)
(* Fraction.limit_denominator(max_d): the closest rational with            *)
(* denominator at most max_d, by the continued-fraction expansion, as the  *)
(* standard library computes it.  The probabilities of a game are small,   *)
(* so the expansion runs on machine integers.                              *)
(***************************************************************************)
RECURSIVE LimitLoop(_, _, _, _, _, _, _)
LimitLoop(p0, q0, p1, q1, n, d, max_d) ==
    LET a  == n \div d
        q2 == q0 + a * q1
    IN  IF q2 > max_d
        THEN [p0 |-> p0, q0 |-> q0, p1 |-> p1, q1 |-> q1, n |-> n, d |-> d]
        ELSE LimitLoop(p1, q1, p0 + a * p1, q2, d, n - a * d, max_d)

LimitDenominator(x, max_d) ==
    LET num == NToInt(x.num.mag)
        den == NToInt(x.den)
    IN  IF den <= max_d THEN x
        ELSE LET r  == LimitLoop(0, 1, 1, 0, num, den, max_d)
                 k  == (max_d - r.q0) \div r.q1
                 b1p == r.p0 + k * r.p1
                 b1q == r.q0 + k * r.q1
                 \* |bound2 - x| <= |bound1 - x|, both sides times den*q1*b1q
                 closer2 == Abs(r.p1 * den - num * r.q1) * b1q
                              <= Abs(b1p * den - num * b1q) * r.q1
             IN  IF closer2 THEN Fraction(r.p1, r.q1) ELSE Fraction(b1p, b1q)

(***************************************************************************)
(* max_denom_and_min_prob(spg, max_d): the minimum probability and the     *)
(* maximum denominator of the individually rounded probabilities.  min()   *)
(* of an empty set raises ValueError.                                      *)
(***************************************************************************)
\* lines 21-26 with 1 as the minimum and the denominator of a game without transitions
MaxDenomAndMinProbDefault(spg, max_d) ==
    LET floats == UNION {{b[1] : b \in t.end_vertices} : t \in Range(spg.transitions)}
        fractions == {LimitDenominator(f, max_d) : f \in floats}
    IN  IF floats = {}
        THEN [error |-> "", min_prob |-> QOne, max_denominator |-> 1]
        ELSE [error |-> "",
              min_prob |-> QMin(floats),
              max_denominator |-> MaxOf({NToInt(fr.den) : fr \in fractions})]

\* lines 21-26 returning the minimum of the rounded fractions
MaxDenomAndMinOfRounded(spg, max_d) ==
    LET floats == UNION {{b[1] : b \in t.end_vertices} : t \in Range(spg.transitions)}
        fractions == {LimitDenominator(f, max_d) : f \in floats}
    IN  IF floats = {}
        THEN [error |-> "ValueError"]
        ELSE [error |-> "",
              min_prob |-> QMin(fractions),
              max_denominator |-> MaxOf({NToInt(fr.den) : fr \in fractions})]

max_denom_and_min_prob(spg, max_d) ==
    LET floats == UNION {{b[1] : b \in t.end_vertices} : t \in Range(spg.transitions)}
        fractions == {LimitDenominator(f, max_d) : f \in floats}
    IN  IF floats = {}
        THEN [error |-> "ValueError"]
        ELSE [error |-> "",
              min_prob |-> QMin(floats),
              max_denominator |-> MaxOf({NToInt(fr.den) : fr \in fractions})]

(***************************************************************************)
(* compute_alphas_for_spg(spg, epsilon, max_d).  epsilon is None (sound    *)
(* mode) or a rational.  The result is [error, alphas]: alphas maps every  *)
(* priority of sorted(used) to its alpha.  The configuration modelled is   *)
(* exact arithmetic (USE_EXACT_ARITHMETIC): the alphas stay Fractions.     *)
(***************************************************************************)
DEFAULT_MAX_D == 10000

None == [is_none |-> TRUE, value |-> QZero]
Eps(p, q) == [is_none |-> FALSE, value |-> Frac(p, q)]

\* the loop of lines 57-59 stopping one priority early
RECURSIVE AlphaLoopSkipsLast(_, _, _, _)
AlphaLoopSkipsLast(used, i, alphas, ratio_bound) ==
    IF i >= Len(used) THEN alphas
    ELSE AlphaLoopSkipsLast(used, i + 1,
                   alphas @@ (used[i] :> QMul(alphas[used[i - 1]], ratio_bound)),
                   ratio_bound)

RECURSIVE AlphaLoop(_, _, _, _)
\* for prev_k, next_k in zip(used, used[1:]): alphas[next_k] = alphas[prev_k] * ratio_bound
AlphaLoop(used, i, alphas, ratio_bound) ==
    IF i > Len(used) THEN alphas
    ELSE AlphaLoop(used, i + 1,
                   alphas @@ (used[i] :> QMul(alphas[used[i - 1]], ratio_bound)),
                   ratio_bound)

SoundAlphas(used, delta_min, one_minus, n_states, max_denominator_M) ==
    LET numerator   == QPow(delta_min, n_states)
        denominator == QMake(ZMake(FALSE,
                           NMul(NMul(NFromInt(8), NPow(Factorial(n_states), 2)),
                                NPow(NFromInt(max_denominator_M), 2 * n_states * n_states))),
                           <<1>>)
        alpha0      == QDiv(numerator, denominator)
        ratio_bound == QDiv(QMul(one_minus, QPow(delta_min, n_states)),
                            QAdd(denominator, QOne))
    IN  [error |-> "", alphas |-> AlphaLoop(used, 2, used[1] :> alpha0, ratio_bound)]

\* lines 61-69 with epsilon and 4 - epsilon exchanged in alpha0
EpsilonAlphasSwapped(used, delta_min, one_minus, n_states, epsilon) ==
    LET numerator   == QMul(QMul(QFromInt(4), QSub(QFromInt(4), epsilon)),
                            QPow(delta_min, n_states))
        denominator == QMul(epsilon, QFromInt(8))
        alpha0      == QDiv(numerator, denominator)
        ratio_den   == QAdd(QDiv(QMul(QFromInt(8), QSub(QFromInt(4), epsilon)),
                                 QMul(QFromInt(4), epsilon)), QOne)
    IN  [error |-> "",
         alphas |-> AlphaLoop(used, 2, used[1] :> alpha0,
                      QDiv(QMul(one_minus, QPow(delta_min, n_states)), ratio_den))]

EpsilonAlphas(used, delta_min, one_minus, n_states, epsilon) ==
    LET numerator   == QMul(QMul(QFromInt(4), epsilon), QPow(delta_min, n_states))
        denominator == QMul(QSub(QFromInt(4), epsilon), QFromInt(8))
        inner_num   == QMul(QFromInt(8), QSub(QFromInt(4), epsilon))
        inner_den   == QMul(QFromInt(4), epsilon)
    IN  IF QIsZero(denominator) \/ QIsZero(inner_den)
        THEN [error |-> "ZeroDivisionError"]
        ELSE LET alpha0    == QDiv(numerator, denominator)
                 ratio_den == QAdd(QDiv(inner_num, inner_den), QOne)
             IN  IF QIsZero(ratio_den)
                 THEN [error |-> "ZeroDivisionError"]
                 ELSE [error |-> "",
                       alphas |-> AlphaLoop(used, 2, used[1] :> alpha0,
                                    QDiv(QMul(one_minus, QPow(delta_min, n_states)),
                                         ratio_den))]

\* line 47: delta_min = Fraction(delta_min_float).limit_denominator(max_d)
DeltaMin(analysis, max_d) == LimitDenominator(analysis.min_prob, max_d)

\* lines 44-71, given the result of the analysis of line 41
AlphasFromAnalysis(analysis, spg, epsilon, max_d) ==
    IF analysis.error # "" THEN [error |-> analysis.error]
    ELSE LET n_states  == Len(spg.vertices)
             used      == Sorted({v.priority : v \in Range(spg.vertices)})
             delta_min == DeltaMin(analysis, max_d)
             one_minus == QSub(QOne, delta_min)
         IN  IF epsilon.is_none
             THEN SoundAlphas(used, delta_min, one_minus, n_states,
                              analysis.max_denominator)
             ELSE EpsilonAlphas(used, delta_min, one_minus, n_states, epsilon.value)

compute_alphas_for_spg(spg, epsilon, max_d) ==
    AlphasFromAnalysis(max_denom_and_min_prob(spg, max_d), spg, epsilon, max_d)

(***************************************************************************)
(* The game data model.  A vertex is identified by its name.               *)
(*   SpgVertex      [name, is_eve, priority]                               *)
(*   SpgTransition  [key, start_vertex, action, end_vertices], key the     *)
(*                  dict key (vertex, action) it is stored under,          *)
(*                  end_vertices a set of <<probability, vertex>>          *)
(*   SsgVertex      [name, is_eve, is_target]                              *)
(*   SsgTransition  [start_vertex, end_vertices, action]                   *)
(***************************************************************************)
VARIABLES
    spg,            \* the StochasticParityGame argument
    epsilon,        \* the epsilon argument of spg_to_ssg
    max_d,          \* the max_d argument of compute_alphas_for_spg
    pc,             \* position in spg_to_ssg
    alphas,         \* spg_to_ssg: alphas
    vertices,       \* spg_to_ssg: vertices, name -> SsgVertex
    new_vertices,   \* spg_to_ssg: new_vertices, name -> SsgVertex
    respective_intermediate_vertices,   \* decision vertex -> intermediate vertex
    transitions,    \* spg_to_ssg: transitions, (vertex, action) -> SsgTransition
    initial_vertex, \* spg_to_ssg: initial_vertex
    idx,            \* index of the vertex the loop of lines 103-112 is at
    i,              \* the suffix counter of the while loops
    calls           \* direct calls: argument (epsilon, or max_d), or call number, -> result;
                    \* the waiting call of a pair; the arguments and locals of a builder

vars == <<spg, epsilon, max_d, pc, alphas, vertices, new_vertices,
          respective_intermediate_vertices, transitions, initial_vertex, idx, i, calls>>

SsgVertex(name, is_eve, is_target) ==
    [name |-> name, is_eve |-> is_eve, is_target |-> is_target]

SsgTransition(start_vertex, end_vertices, action) ==
    [start_vertex |-> start_vertex, end_vertices |-> end_vertices, action |-> action]

SpgTransition(key_vertex, key_action, start_vertex, end_vertices, action) ==
    [key |-> <<key_vertex, key_action>>, start_vertex |-> start_vertex,
     end_vertices |-> end_vertices, action |-> action]

\* a Python set of two (probability, vertex) tuples: equal tuples are one element
PairSet(p1, v1, p2, v2) ==
    IF v1 = v2 /\ QEq(p1, p2) THEN {<<p1, v1>>} ELSE {<<p1, v1>>, <<p2, v2>>}

RECURSIVE QSum(_)
QSum(S) == IF S = {} THEN QZero
           ELSE LET b == CHOOSE b \in S : TRUE IN QAdd(b[1], QSum(S \ {b}))

(***************************************************************************)
(* Input games.  Vertex names are chosen to meet the marker "'" and the    *)
(* sink names; owners, priorities and the initial vertex are free; the     *)
(* transitions follow a few patterns (create_chain_spg with min_prob 1/2   *)
(* among them).                                                            *)
(***************************************************************************)
MaxPriority == 2

NameLists ==
    { <<"a">>, <<"v_win">>,
      <<"a", "b">>, <<"a", "a'">>, <<"v_win", "a">>, <<"a", "v_lose">>,
      <<"v_win", "v_lose">>, <<"v_win", "v_win0">>, <<"v_lose0", "v_lose">>,
      <<"a", "a'0">>, <<"a", "a'", "a'0">> }

Patterns == {"none", "loops", "chain", "fan"}

Epsilons == {None, Eps(1, 2), Eps(2, 1), Eps(16, 5)}

Loops(names) ==
    [k \in 1..Len(names) |->
        SpgTransition(names[k], "stay", names[k], {<<Frac(1, 1), names[k]>>}, "stay")]

\* create_chain_spg(length, min_prob) with length = Len(names) - 1, min_prob = 1/2
Chain(names) ==
    [k \in 1..Len(names) |->
        IF k < Len(names)
        THEN SpgTransition(names[k], "next", names[k],
                 {<<Frac(1, 2), names[k + 1]>>, <<QSub(Frac(1, 1), Frac(1, 2)), names[1]>>},
                 "next")
        ELSE SpgTransition(names[k], "end", names[k], {<<Frac(1, 1), names[k]>>}, "end")]

\* only the first vertex moves, by two actions; every other vertex has no transition
Fan(names) ==
    << SpgTransition(names[1], "a", names[1],
           {<<Frac(1, 3), names[1]>>, <<Frac(2, 3), names[Len(names)]>>}, "a"),
       SpgTransition(names[1], "b", names[1], {<<Frac(1, 1), names[Len(names)]>>}, "b") >>

PatternTransitions(pat, names) ==
    CASE pat = "none"  -> <<>>
      [] pat = "loops" -> Loops(names)
      [] pat = "chain" -> Chain(names)
      [] pat = "fan"   -> Fan(names)

Game(names, own, pri, init, trans) ==
    [vertices |-> [k \in 1..Len(names) |->
                      [name |-> names[k], is_eve |-> own[k], priority |-> pri[k]]],
     transitions |-> trans,
     init_vertex |-> names[init]]

(***************************************************************************)
(* The benchmark games.  A float probability is modelled by the rational   *)
(* it denotes.                                                             *)
(***************************************************************************)
MaxLength == 2

\* "v" + str(i)
VertexName(n) == "v" \o ToString(n)

\* create_chain_spg(length, min_prob)
create_chain_spg(length, min_prob) ==
    [vertices |-> [k \in 1..(length + 1) |->
                      [name |-> VertexName(k - 1), is_eve |-> TRUE, priority |-> 0]],
     transitions |->
         [k \in 1..(length + 1) |->
             IF k <= length
             THEN SpgTransition(VertexName(k - 1), "next", VertexName(k - 1),
                      PairSet(min_prob, VertexName(k),
                              QSub(QOne, min_prob), VertexName(0)),
                      "next")
             ELSE SpgTransition(VertexName(length), "end", VertexName(length),
                      {<<Frac(1, 1), VertexName(length)>>}, "end")],
     init_vertex |-> VertexName(0)]

\* the values of min_prob the chain games are built with
ChainProbabilities == {Frac(1, 2), Frac(3, 4), Frac(99999, 100000), Frac(1, 1)}

ChainGames ==
    {create_chain_spg(length, min_prob) :
        length \in 1..MaxLength, min_prob \in ChainProbabilities}

MutexVertex(name, is_eve, priority) ==
    [name |-> name, is_eve |-> is_eve, priority |-> priority]

\* one entry of the transitions dict of create_mutex_spg: its key, and the
\* start vertex, the action and the two branches of probability 0.5 of its value
MutexTransition(key_vertex, key_action, start_vertex, action, end0, end1) ==
    SpgTransition(key_vertex, key_action, start_vertex,
        {<<Frac(1, 2), end0>>, <<Frac(1, 2), end1>>}, action)

\* create_mutex_spg()
create_mutex_spg ==
    [vertices |-> <<
       MutexVertex("start", TRUE, 0),
       MutexVertex("(N,N,0)", TRUE, 3),
       MutexVertex("(N,N,1)", FALSE, 3),
       MutexVertex("(N,T,0)", TRUE, 3),
       MutexVertex("(N,T,1)", FALSE, 3),
       MutexVertex("(N,C,0)", TRUE, 3),
       MutexVertex("(N,C,1)", FALSE, 3),
       MutexVertex("(T,N,0)", TRUE, 3),
       MutexVertex("(T,N,1)", FALSE, 3),
       MutexVertex("(T,T,0)", TRUE, 3),
       MutexVertex("(T,T,1)", FALSE, 3),
       MutexVertex("(T,C,0)", TRUE, 3),
       MutexVertex("(T,C,1)", FALSE, 3),
       MutexVertex("(C,N,0)", TRUE, 2),
       MutexVertex("(C,N,1)", FALSE, 2),
       MutexVertex("(C,T,0)", TRUE, 2),
       MutexVertex("(C,T,1)", FALSE, 2),
       MutexVertex("(C,C,0)", TRUE, 1),
       MutexVertex("(C,C,1)", FALSE, 1) >>,
     transitions |-> <<
       MutexTransition("start", "start", "start", "enter", "(N,N,0)", "(N,N,1)"),
       MutexTransition("(N,N,0)", "stay", "(N,N,0)", "stay", "(N,N,0)", "(N,N,1)"),
       MutexTransition("(N,N,0)", "try", "(N,N,0)", "try", "(T,N,0)", "(T,N,1)"),
       MutexTransition("(N,N,1)", "stay", "(N,N,1)", "try", "(N,N,0)", "(N,N,1)"),
       MutexTransition("(N,N,1)", "try", "(N,N,1)", "try", "(N,T,0)", "(N,T,1)"),
       MutexTransition("(N,T,0)", "stay", "(N,T,0)", "try", "(N,T,0)", "(N,T,1)"),
       MutexTransition("(N,T,0)", "try", "(N,T,0)", "try", "(T,T,0)", "(T,T,1)"),
       MutexTransition("(N,T,1)", "enter", "(N,T,1)", "try", "(N,C,0)", "(N,C,1)"),
       MutexTransition("(N,C,0)", "stay", "(N,C,0)", "try", "(N,C,0)", "(N,C,1)"),
       MutexTransition("(N,C,0)", "try", "(N,C,0)", "try", "(T,C,0)", "(T,C,1)"),
       MutexTransition("(N,C,1)", "exit", "(N,C,0)", "try", "(N,N,0)", "(N,N,1)"),
       MutexTransition("(T,N,0)", "enter", "(T,N,0)", "try", "(C,N,0)", "(C,N,1)"),
       MutexTransition("(T,N,1)", "stay", "(T,N,1)", "try", "(T,N,0)", "(T,N,1)"),
       MutexTransition("(T,N,1)", "try", "(T,N,1)", "try", "(T,T,0)", "(T,T,1)"),
       MutexTransition("(T,T,0)", "enter", "(T,T,0)", "try", "(C,T,0)", "(C,T,1)"),
       MutexTransition("(T,T,1)", "enter", "(T,T,1)", "try", "(T,C,0)", "(T,C,1)"),
       MutexTransition("(T,C,0)", "enter", "(T,C,0)", "try", "(C,C,0)", "(C,C,1)"),
       MutexTransition("(T,C,1)", "exit", "(T,C,1)", "try", "(T,N,0)", "(T,N,1)"),
       MutexTransition("(C,N,0)", "exit", "(C,N,0)", "try", "(N,N,0)", "(N,N,1)"),
       MutexTransition("(C,N,1)", "stay", "(C,N,1)", "try", "(C,N,0)", "(C,N,1)"),
       MutexTransition("(C,N,1)", "try", "(C,N,1)", "try", "(C,T,0)", "(C,T,1)"),
       MutexTransition("(C,T,0)", "exit", "(C,T,0)", "try", "(N,T,0)", "(N,T,1)"),
       MutexTransition("(C,T,1)", "enter", "(C,T,1)", "try", "(C,C,0)", "(C,C,1)"),
       MutexTransition("(C,C,0)", "exit", "(C,C,0)", "try", "(N,C,0)", "(N,C,1)"),
       MutexTransition("(C,C,1)", "exit", "(C,C,1)", "try", "(C,N,0)", "(C,N,1)") >>,
     init_vertex |-> "start"]

\* the epsilon the benchmarks reduce their games with, 1e-6
BenchmarkEpsilon == Eps(1, 1000000)

Idle ==
    /\ alphas = <<>>
    /\ vertices = <<>>
    /\ new_vertices = <<>>
    /\ respective_intermediate_vertices = <<>>
    /\ transitions = <<>>
    /\ initial_vertex = ""
    /\ idx = 0
    /\ i = 0
    /\ calls = <<>>

Init ==
    /\ \/ /\ \E names \in NameLists :
                \E own \in [1..Len(names) -> BOOLEAN],
                   pri \in [1..Len(names) -> 0..MaxPriority],
                   init \in 1..Len(names), pat \in Patterns :
                   spg = Game(names, own, pri, init, PatternTransitions(pat, names))
          /\ epsilon \in Epsilons
       \/ /\ spg \in ChainGames
          /\ epsilon \in Epsilons \cup {BenchmarkEpsilon}
       \/ /\ spg = create_mutex_spg
          /\ epsilon = BenchmarkEpsilon
    /\ max_d = DEFAULT_MAX_D
    /\ pc = "start"
    /\ Idle

(***************************************************************************)
(* spg_to_ssg(spg, epsilon), statement by statement.                       *)
(***************************************************************************)
\* d[k] = v on a dict
Put(d, k, v) == [x \in (DOMAIN d) \cup {k} |-> IF x = k THEN v ELSE d[x]]

\* d |= e that leaves d as it was
UpdateKeepsLeft(d, e) == d

\* d |= e on dicts
Update(d, e) == [x \in (DOMAIN d) \cup (DOMAIN e) |-> IF x \in DOMAIN e THEN e[x] ELSE d[x]]

Marker == "'"

\* line 87: alphas = compute_alphas_for_spg(spg, epsilon=epsilon); an exception ends the call
ComputeAlphas ==
    /\ pc = "start"
    /\ LET r == compute_alphas_for_spg(spg, epsilon, DEFAULT_MAX_D)
       IN  IF r.error # ""
           THEN /\ pc' = r.error
                /\ alphas' = alphas
           ELSE /\ pc' = "decision"
                /\ alphas' = r.alphas
    /\ UNCHANGED <<spg, epsilon, max_d, vertices, new_vertices,
                   respective_intermediate_vertices, transitions, initial_vertex,
                   idx, i, calls>>

\* lines 97-98 with is_target=True
DecisionVerticesTargets(g) ==
    LET Loop[k \in 0..Len(g.vertices)] ==
            IF k = 0 THEN <<>>
            ELSE Put(Loop[k - 1], g.vertices[k].name,
                     SsgVertex(g.vertices[k].name, g.vertices[k].is_eve, TRUE))
    IN  Loop[Len(g.vertices)]

\* lines 92-101: one decision vertex per SPG vertex, and the initial vertex
DecisionVertices(g) ==
    LET Loop[k \in 0..Len(g.vertices)] ==
            IF k = 0 THEN <<>>
            ELSE Put(Loop[k - 1], g.vertices[k].name,
                     SsgVertex(g.vertices[k].name, g.vertices[k].is_eve, FALSE))
    IN  Loop[Len(g.vertices)]

\* lines 97-102 with the first vertex taken as the initial vertex
CreateDecisionVerticesFirstInitial ==
    /\ pc = "decision"
    /\ vertices' = DecisionVertices(spg)
    /\ new_vertices' = <<>>
    /\ initial_vertex' = vertices'[spg.vertices[1].name].name
    /\ respective_intermediate_vertices' = <<>>
    /\ idx' = 1
    /\ pc' = "intermediate"
    /\ UNCHANGED <<spg, epsilon, max_d, alphas, transitions, i, calls>>

CreateDecisionVertices ==
    /\ pc = "decision"
    /\ vertices' = DecisionVertices(spg)
    /\ new_vertices' = <<>>
    /\ initial_vertex' = vertices'[spg.init_vertex].name
    /\ respective_intermediate_vertices' = <<>>
    /\ idx' = 1
    /\ pc' = "intermediate"
    /\ UNCHANGED <<spg, epsilon, max_d, alphas, transitions, i, calls>>

\* lines 105-106 and 111-112 with is_eve=v.is_eve
AddIntermediateSameOwner(v, name) ==
    /\ new_vertices' = Put(new_vertices, name, SsgVertex(name, v.is_eve, FALSE))
    /\ respective_intermediate_vertices' =
           Put(respective_intermediate_vertices, vertices[v.name].name, name)

\* lines 105-106 for every vertex: the base name whether or not it is in use
AddIntermediateUnsuffixed(v, name) ==
    /\ new_vertices' = Put(new_vertices, v.name \o Marker,
                           SsgVertex(v.name \o Marker, ~v.is_eve, FALSE))
    /\ respective_intermediate_vertices' =
           Put(respective_intermediate_vertices, vertices[v.name].name, v.name \o Marker)

\* lines 105-106 and 111-112: the intermediate vertex of v under the name chosen
AddIntermediate(v, name) ==
    /\ new_vertices' = Put(new_vertices, name, SsgVertex(name, ~v.is_eve, FALSE))
    /\ respective_intermediate_vertices' =
           Put(respective_intermediate_vertices, vertices[v.name].name, name)

\* lines 103-108: the loop body up to the while loop
IntermediateVertex ==
    /\ pc = "intermediate"
    /\ idx <= Len(spg.vertices)
    /\ LET v == spg.vertices[idx]
       IN  IF (v.name \o Marker) \notin DOMAIN vertices
           THEN /\ AddIntermediate(v, v.name \o Marker)
                /\ idx' = idx + 1
                /\ UNCHANGED <<pc, i>>
           ELSE /\ i' = 0
                /\ pc' = "intermediate_while"
                /\ UNCHANGED <<new_vertices, respective_intermediate_vertices, idx>>
    /\ UNCHANGED <<spg, epsilon, max_d, alphas, vertices, transitions, initial_vertex, calls>>

\* lines 109-110: the suffix is taken
IntermediateWhileStep ==
    /\ pc = "intermediate_while"
    /\ (spg.vertices[idx].name \o Marker \o ToString(i)) \in DOMAIN vertices
    /\ i' = i + 1
    /\ UNCHANGED <<spg, epsilon, max_d, pc, alphas, vertices, new_vertices,
                   respective_intermediate_vertices, transitions, initial_vertex, idx, calls>>

\* lines 109, 111-112: the suffix is free
IntermediateWhileExit ==
    /\ pc = "intermediate_while"
    /\ (spg.vertices[idx].name \o Marker \o ToString(i)) \notin DOMAIN vertices
    /\ AddIntermediate(spg.vertices[idx], spg.vertices[idx].name \o Marker \o ToString(i))
    /\ idx' = idx + 1
    /\ pc' = "intermediate"
    /\ UNCHANGED <<spg, epsilon, max_d, alphas, vertices, transitions, initial_vertex, i, calls>>

\* line 113: vertices |= new_vertices
MergeNewVertices ==
    /\ pc = "intermediate"
    /\ idx > Len(spg.vertices)
    /\ vertices' = Update(vertices, new_vertices)
    /\ pc' = "win"
    /\ UNCHANGED <<spg, epsilon, max_d, alphas, new_vertices,
                   respective_intermediate_vertices, transitions, initial_vertex,
                   idx, i, calls>>

\* lines 114-117
WinSink ==
    /\ pc = "win"
    /\ IF "v_win" \notin DOMAIN vertices
       THEN /\ vertices' = Put(vertices, "v_win", SsgVertex("v_win", TRUE, TRUE))
            /\ pc' = "lose"
            /\ i' = i
       ELSE /\ i' = 0
            /\ pc' = "win_while"
            /\ vertices' = vertices
    /\ UNCHANGED <<spg, epsilon, max_d, alphas, new_vertices,
                   respective_intermediate_vertices, transitions, initial_vertex, idx, calls>>

\* lines 118-119
WinWhileStep ==
    /\ pc = "win_while"
    /\ ("v_win" \o ToString(i)) \in DOMAIN vertices
    /\ i' = i + 1
    /\ UNCHANGED <<spg, epsilon, max_d, pc, alphas, vertices, new_vertices,
                   respective_intermediate_vertices, transitions, initial_vertex, idx, calls>>

\* line 120 under the base name, whatever the search found
WinWhileExitUnsuffixed ==
    /\ pc = "win_while"
    /\ ("v_win" \o ToString(i)) \notin DOMAIN vertices
    /\ vertices' = Put(vertices, "v_win", SsgVertex("v_win", TRUE, TRUE))
    /\ pc' = "lose"
    /\ UNCHANGED <<spg, epsilon, max_d, alphas, new_vertices,
                   respective_intermediate_vertices, transitions, initial_vertex,
                   idx, i, calls>>

\* lines 118, 120
WinWhileExit ==
    /\ pc = "win_while"
    /\ ("v_win" \o ToString(i)) \notin DOMAIN vertices
    /\ vertices' = Put(vertices, "v_win" \o ToString(i),
                       SsgVertex("v_win" \o ToString(i), TRUE, TRUE))
    /\ pc' = "lose"
    /\ UNCHANGED <<spg, epsilon, max_d, alphas, new_vertices,
                   respective_intermediate_vertices, transitions, initial_vertex,
                   idx, i, calls>>

\* lines 121-124
LoseSink ==
    /\ pc = "lose"
    /\ IF "v_lose" \notin DOMAIN vertices
       THEN /\ vertices' = Put(vertices, "v_lose", SsgVertex("v_lose", FALSE, FALSE))
            /\ pc' = "copy"
            /\ i' = i
       ELSE /\ i' = 0
            /\ pc' = "lose_while"
            /\ vertices' = vertices
    /\ UNCHANGED <<spg, epsilon, max_d, alphas, new_vertices,
                   respective_intermediate_vertices, transitions, initial_vertex, idx, calls>>

\* lines 125-126
LoseWhileStep ==
    /\ pc = "lose_while"
    /\ ("v_lose" \o ToString(i)) \in DOMAIN vertices
    /\ i' = i + 1
    /\ UNCHANGED <<spg, epsilon, max_d, pc, alphas, vertices, new_vertices,
                   respective_intermediate_vertices, transitions, initial_vertex, idx, calls>>

\* lines 125, 127
LoseWhileExit ==
    /\ pc = "lose_while"
    /\ ("v_lose" \o ToString(i)) \notin DOMAIN vertices
    /\ vertices' = Put(vertices, "v_lose" \o ToString(i),
                       SsgVertex("v_lose" \o ToString(i), FALSE, FALSE))
    /\ pc' = "copy"
    /\ UNCHANGED <<spg, epsilon, max_d, alphas, new_vertices,
                   respective_intermediate_vertices, transitions, initial_vertex,
                   idx, i, calls>>

\* lines 130-135 with the branches left on the decision vertices
CopiedTransitionNoRedirect(t) ==
    LET start_v == vertices[t.start_vertex].name
        end_vs  == {<<b[1], vertices[b[2]].name>> : b \in t.end_vertices}
    IN  SsgTransition(start_v, end_vs, t.action)

\* lines 130-135: the SSG transition of one SPG transition
CopiedTransition(t) ==
    LET start_v == vertices[t.start_vertex].name
        end_vs  == {<<b[1], respective_intermediate_vertices[vertices[b[2]].name]>> :
                        b \in t.end_vertices}
    IN  SsgTransition(start_v, end_vs, t.action)

\* lines 129-135
CopyLoop(trans) ==
    LET Loop[k \in 0..Len(spg.transitions)] ==
            IF k = 0 THEN trans
            ELSE LET c == CopiedTransition(spg.transitions[k])
                 IN  Put(Loop[k - 1], <<c.start_vertex, c.action>>, c)
    IN  Loop[Len(spg.transitions)]

\* lines 129-135 writing the redirected branches into the SPG's transitions too
CopyTransitionsInPlace ==
    /\ pc = "copy"
    /\ transitions' = CopyLoop(transitions)
    /\ spg' = [spg EXCEPT !.transitions =
                  [k \in DOMAIN spg.transitions |->
                      [spg.transitions[k] EXCEPT
                          !.end_vertices = CopiedTransition(spg.transitions[k]).end_vertices]]]
    /\ pc' = "alpha"
    /\ UNCHANGED <<epsilon, max_d, alphas, vertices, new_vertices,
                   respective_intermediate_vertices, initial_vertex, idx, i, calls>>

CopyTransitions ==
    /\ pc = "copy"
    /\ transitions' = CopyLoop(transitions)
    /\ pc' = "alpha"
    /\ UNCHANGED <<spg, epsilon, max_d, alphas, vertices, new_vertices,
                   respective_intermediate_vertices, initial_vertex, idx, i, calls>>

\* lines 138-141 with the two sinks exchanged
SinkLookupSwapped(priority) ==
    IF priority % 2 = 0 THEN vertices["v_lose"].name ELSE vertices["v_win"].name

\* lines 138-141: the sink the code looks up for a priority
SinkLookup(priority) ==
    IF priority % 2 = 0 THEN vertices["v_win"].name ELSE vertices["v_lose"].name

\* lines 139, 141: the alpha transition of one SPG vertex
AlphaTransition(vertex) ==
    LET decision == vertices[vertex.name].name
        start_v  == respective_intermediate_vertices[decision]
    IN  SsgTransition(start_v,
            PairSet(alphas[vertex.priority], SinkLookup(vertex.priority),
                    QSub(QOne, alphas[vertex.priority]), vertices[decision].name),
            "alpha")

\* lines 137-141 for the vertices that start a transition only
AlphaLoop2OnlyMoving(trans) ==
    LET Loop[k \in 0..Len(spg.vertices)] ==
            IF k = 0 THEN trans
            ELSE IF \A t \in Range(spg.transitions) :
                        t.start_vertex # spg.vertices[k].name
                 THEN Loop[k - 1]
                 ELSE LET a == AlphaTransition(spg.vertices[k])
                      IN  Put(Loop[k - 1], <<a.start_vertex, "alpha">>, a)
    IN  Loop[Len(spg.vertices)]

\* lines 137-141
AlphaLoop2(trans) ==
    LET Loop[k \in 0..Len(spg.vertices)] ==
            IF k = 0 THEN trans
            ELSE LET a == AlphaTransition(spg.vertices[k])
                 IN  Put(Loop[k - 1], <<a.start_vertex, "alpha">>, a)
    IN  Loop[Len(spg.vertices)]

AlphaTransitions ==
    /\ pc = "alpha"
    /\ transitions' = AlphaLoop2(transitions)
    /\ pc' = "return"
    /\ UNCHANGED <<spg, epsilon, max_d, alphas, vertices, new_vertices,
                   respective_intermediate_vertices, initial_vertex, idx, i, calls>>

\* line 142: return SimpleStochasticGame(vertices, transitions, initial_vertex)
Return ==
    /\ pc = "return"
    /\ pc' = "done"
    /\ UNCHANGED <<spg, epsilon, max_d, alphas, vertices, new_vertices,
                   respective_intermediate_vertices, transitions, initial_vertex,
                   idx, i, calls>>

Next ==
    \/ ComputeAlphas
    \/ CreateDecisionVertices
    \/ IntermediateVertex
    \/ IntermediateWhileStep
    \/ IntermediateWhileExit
    \/ MergeNewVertices
    \/ WinSink
    \/ WinWhileStep
    \/ WinWhileExit
    \/ LoseSink
    \/ LoseWhileStep
    \/ LoseWhileExit
    \/ CopyTransitions
    \/ AlphaTransitions
    \/ Return

Spec == Init /\ [][Next]_vars

(***************************************************************************)
(* Direct calls of compute_alphas_for_spg(spg, epsilon, max_d) on games    *)
(* with varied probabilities, vertex counts, priorities and caps; calls    *)
(* records the result of each call made on the same game.                  *)
(***************************************************************************)
MaxCalls == 2

AlphaNameLists == { <<"v0">>, <<"v0", "v1">>, <<"v0", "v1", "v2">> }

\* the probability of the first branch of the game's transition
FirstProbabilities == { Frac(1, 1), Frac(1, 2), Frac(1, 3), Frac(1, 4), Frac(2, 5) }

Caps == {1, 2, 3, DEFAULT_MAX_D}

CallEpsilons == {None, Eps(1, 2), Eps(2, 1), Eps(7, 2)}

Branching(names, p) ==
    << SpgTransition(names[1], "a", names[1],
           IF QEq(p, QOne) THEN {<<p, names[Len(names)]>>}
           ELSE {<<p, names[1]>>, <<QSub(QOne, p), names[Len(names)]>>}, "a") >>

InitAlphas ==
    /\ \E names \in AlphaNameLists :
         \E pri \in [1..Len(names) -> 0..MaxPriority], p \in FirstProbabilities :
            /\ Len(names) > 1 \/ ~QEq(p, Frac(1, 2))
            /\ spg = Game(names, [k \in 1..Len(names) |-> TRUE], pri, 1,
                          Branching(names, p))
    /\ max_d \in Caps
    /\ epsilon = None
    /\ pc = "idle"
    /\ Idle

AlphaCall ==
    /\ pc = "idle"
    /\ Cardinality(DOMAIN calls) < MaxCalls
    /\ \E e \in CallEpsilons \ DOMAIN calls :
          calls' = Put(calls, e, compute_alphas_for_spg(spg, e, max_d))
    /\ UNCHANGED <<spg, epsilon, max_d, pc, alphas, vertices, new_vertices,
                   respective_intermediate_vertices, transitions, initial_vertex, idx, i>>

NextAlphas == AlphaCall

SpecAlphas == InitAlphas /\ [][NextAlphas]_vars

(***************************************************************************)
(* Direct calls of max_denom_and_min_prob(spg, max_d) on games with two    *)
(* transitions of varied probabilities; calls records the result under     *)
(* each cap the game was analysed with.                                    *)
(***************************************************************************)
AnalyzerProbabilities == FirstProbabilities \cup { Frac(1, 5), Frac(3, 7) }

TwoBranchings(names, p, q) ==
    Branching(names, p) \o
    << SpgTransition(names[Len(names)], "b", names[Len(names)],
           IF QEq(q, QOne) THEN {<<q, names[1]>>}
           ELSE {<<q, names[Len(names)]>>, <<QSub(QOne, q), names[1]>>}, "b") >>

InitAnalyzer ==
    /\ \E names \in AlphaNameLists :
         \E p, q \in AnalyzerProbabilities :
            /\ Len(names) > 1
            /\ spg = Game(names, [k \in 1..Len(names) |-> TRUE],
                          [k \in 1..Len(names) |-> 0], 1, TwoBranchings(names, p, q))
    /\ max_d = DEFAULT_MAX_D
    /\ epsilon = None
    /\ pc = "analyzer"
    /\ Idle

AnalyzerCall ==
    /\ pc = "analyzer"
    /\ Cardinality(DOMAIN calls) < MaxCalls
    /\ \E cap \in Caps \ DOMAIN calls :
          calls' = Put(calls, cap, max_denom_and_min_prob(spg, cap))
    /\ UNCHANGED <<spg, epsilon, max_d, pc, alphas, vertices, new_vertices,
                   respective_intermediate_vertices, transitions, initial_vertex, idx, i>>

NextAnalyzer == AnalyzerCall

SpecAnalyzer == InitAnalyzer /\ [][NextAnalyzer]_vars

(***************************************************************************)
(* Repeated calls of compute_alphas_for_spg with the same arguments.  The  *)
(* analyzer iterates over the set floats, and a set has no iteration order *)
(* fixed by the language: every call runs lines 21-26 in an order of its   *)
(* own.  calls is the sequence of the results.                             *)
(***************************************************************************)
\* the orders a set can be iterated in
Orders(S) == {o \in [1..Cardinality(S) -> S] : Range(o) = S}

\* the first element met
FirstInOrder(order) == order[1]

\* min(floats), line 26: the first of the smallest elements met
MinInOrder(order) ==
    LET Loop[k \in 1..Len(order)] ==
            IF k = 1 THEN order[1]
            ELSE IF QLess(order[k], Loop[k - 1]) THEN order[k] ELSE Loop[k - 1]
    IN  Loop[Len(order)]

\* max(fr.denominator for fr in fractions), line 26
MaxInOrder(denominators) ==
    LET Loop[k \in 1..Len(denominators)] ==
            IF k = 1 THEN denominators[1]
            ELSE IF denominators[k] > Loop[k - 1] THEN denominators[k] ELSE Loop[k - 1]
    IN  Loop[Len(denominators)]

\* lines 21-26 with floats iterated in the given order
AnalyzerInOrder(order, cap) ==
    IF order = <<>> THEN [error |-> "ValueError"]
    ELSE LET fractions == [k \in DOMAIN order |-> LimitDenominator(order[k], cap)]
         IN  [error |-> "",
              min_prob |-> MinInOrder(order),
              max_denominator |->
                  MaxInOrder([k \in DOMAIN fractions |-> NToInt(fractions[k].den)])]

InitOrders ==
    /\ \E names \in AlphaNameLists :
         \E p, q \in AnalyzerProbabilities :
            /\ Len(names) > 1
            /\ spg = Game(names, [k \in 1..Len(names) |-> TRUE],
                          [k \in 1..Len(names) |-> k - 1], 1, TwoBranchings(names, p, q))
    /\ max_d \in Caps
    /\ epsilon \in CallEpsilons
    /\ pc = "orders"
    /\ Idle

OrderedCall ==
    /\ pc = "orders"
    /\ Len(calls) < MaxCalls
    /\ \E order \in Orders(UNION {{b[1] : b \in t.end_vertices} :
                                     t \in Range(spg.transitions)}) :
          calls' = Append(calls, AlphasFromAnalysis(AnalyzerInOrder(order, max_d),
                                                    spg, epsilon, max_d))
    /\ UNCHANGED <<spg, epsilon, max_d, pc, alphas, vertices, new_vertices,
                   respective_intermediate_vertices, transitions, initial_vertex, idx, i>>

NextOrders == OrderedCall

SpecOrders == InitOrders /\ [][NextOrders]_vars

(***************************************************************************)
(* Two calls of spg_to_ssg on two SPG instances, run by one interpreter    *)
(* that may leave one call for the other between any two statements.  The  *)
(* variables above are the locals of the call that runs; calls holds the   *)
(* locals of the call that waits, which of the two runs, and the results   *)
(* of the two calls run one after the other, which the model produces      *)
(* first.  The module keeps no state of its own, and settings is only      *)
(* read.                                                                   *)
(***************************************************************************)
PairNameLists ==
    { <<"a", "b">>, <<"v_win", "a">>, <<"a", "a'", "a'0">>,
      <<"v_win", "v_win0">>, <<"v_lose0", "v_lose">> }

PairEpsilons == {None, Eps(1, 2)}

PairGame(names) ==
    Game(names, [k \in 1..Len(names) |-> k % 2 = 1], [k \in 1..Len(names) |-> k - 1],
         1, Chain(names))

\* the locals of the running call
Frame ==
    [spg |-> spg, epsilon |-> epsilon, pc |-> pc, alphas |-> alphas,
     vertices |-> vertices, new_vertices |-> new_vertices,
     respective_intermediate_vertices |-> respective_intermediate_vertices,
     transitions |-> transitions, initial_vertex |-> initial_vertex,
     idx |-> idx, i |-> i]

\* the locals of a call of spg_to_ssg(g, e) before its first statement
Entry(g, e) ==
    [spg |-> g, epsilon |-> e, pc |-> "start", alphas |-> <<>>,
     vertices |-> <<>>, new_vertices |-> <<>>,
     respective_intermediate_vertices |-> <<>>,
     transitions |-> <<>>, initial_vertex |-> "", idx |-> 0, i |-> 0]

\* a call has returned or raised
Ended(frame) == frame.pc \notin
    {"start", "decision", "intermediate", "intermediate_while", "win", "win_while",
     "lose", "lose_while", "copy", "alpha", "return"}

\* what a call hands to its caller: the SimpleStochasticGame of line 142, or the exception
Outcome(frame) ==
    IF frame.pc = "done"
    THEN [error |-> "", vertices |-> frame.vertices, transitions |-> frame.transitions,
          init_vertex |-> frame.initial_vertex]
    ELSE [error |-> frame.pc]

\* the suffix counter i as a variable of the module, which both calls would use
ResumeSharedCounter(own, left) == [own EXCEPT !.i = left.i]

\* the locals a call finds when it goes on, after the other call has left its own:
\* every name spg_to_ssg assigns is local to the call
Resume(own, left) == own

Load(frame) ==
    /\ spg' = frame.spg
    /\ epsilon' = frame.epsilon
    /\ pc' = frame.pc
    /\ alphas' = frame.alphas
    /\ vertices' = frame.vertices
    /\ new_vertices' = frame.new_vertices
    /\ respective_intermediate_vertices' = frame.respective_intermediate_vertices
    /\ transitions' = frame.transitions
    /\ initial_vertex' = frame.initial_vertex
    /\ idx' = frame.idx
    /\ i' = frame.i
    /\ UNCHANGED max_d

InitPair ==
    /\ \E names1, names2 \in PairNameLists : \E e1, e2 \in PairEpsilons :
          /\ spg = PairGame(names1)
          /\ epsilon = e1
          /\ calls = [running |-> 1, waiting |-> Entry(PairGame(names2), e2),
                      interleaved |-> FALSE, sequential |-> <<>>]
    /\ max_d = DEFAULT_MAX_D
    /\ pc = "start"
    /\ alphas = <<>>
    /\ vertices = <<>>
    /\ new_vertices = <<>>
    /\ respective_intermediate_vertices = <<>>
    /\ transitions = <<>>
    /\ initial_vertex = ""
    /\ idx = 0
    /\ i = 0

\* the interpreter leaves the running call for the waiting one: between any two
\* statements when the calls are interleaved, at the end of the first call otherwise
Switch ==
    /\ ~Ended(calls.waiting)
    /\ calls.interleaved \/ (Ended(Frame) /\ calls.running = 1)
    /\ Load(Resume(calls.waiting, Frame))
    /\ calls' = [calls EXCEPT !.running = 3 - @, !.waiting = Frame]

\* both calls have run one after the other: the same two calls are made again, interleaved
CallAgain ==
    /\ ~calls.interleaved
    /\ calls.running = 2
    /\ Ended(Frame) /\ Ended(calls.waiting)
    /\ Load(Entry(calls.waiting.spg, calls.waiting.epsilon))
    /\ calls' = [running |-> 1, waiting |-> Entry(spg, epsilon), interleaved |-> TRUE,
                 sequential |-> <<Outcome(calls.waiting), Outcome(Frame)>>]

NextPair ==
    \/ Next
    \/ Switch
    \/ CallAgain

SpecPair == InitPair /\ [][NextPair]_vars

(***************************************************************************)
(* One call of spg_to_ssg on a game whose names meet the marker and the    *)
(* sink names: the interpreter goes on with the next statement of a while  *)
(* loop as long as there is one.                                           *)
(***************************************************************************)
WhileStatement ==
    \/ IntermediateWhileStep \/ IntermediateWhileExit
    \/ WinWhileStep \/ WinWhileExit
    \/ LoseWhileStep \/ LoseWhileExit

InitNames ==
    /\ \E names \in NameLists : spg = PairGame(names)
    /\ epsilon \in Epsilons
    /\ max_d = DEFAULT_MAX_D
    /\ pc = "start"
    /\ Idle

SpecNames == InitNames /\ [][Next]_vars /\ WF_vars(WhileStatement)

(***************************************************************************)
(* create_random_spg(number_of_vertices, number_of_outgoing_transitions,   *)
(* number_of_priorities): spg is the game under construction, calls holds  *)
(* the arguments of the call, and every random.randint and random.choice   *)
(* is a choice over its outcomes.  The floats 1.0 and 0.5 are modelled by  *)
(* the rationals they denote.                                              *)
(***************************************************************************)
MaxRandom == 2

\* f"v_{i}" and f"action_{i}"
RandomVertexName(n) == "v_" \o ToString(n)
RandomActionName(n) == "action_" \o ToString(n)

\* line 329: the vertices, owners and priorities drawn
InitRandom ==
    /\ \E number_of_vertices, number_of_outgoing_transitions, number_of_priorities
              \in 1..MaxRandom :
          /\ calls = <<[number_of_vertices |-> number_of_vertices,
                        number_of_outgoing_transitions |-> number_of_outgoing_transitions,
                        number_of_priorities |-> number_of_priorities]>>
          /\ \E own \in [1..number_of_vertices -> BOOLEAN],
                pri \in [1..number_of_vertices -> 0..(number_of_priorities - 1)] :
                spg = [vertices |-> [k \in 1..number_of_vertices |->
                                        [name |-> RandomVertexName(k - 1), is_eve |-> own[k],
                                         priority |-> pri[k]]],
                       transitions |-> <<>>,
                       init_vertex |-> ""]
    /\ pc = "random"
    /\ epsilon = None
    /\ max_d = DEFAULT_MAX_D
    /\ alphas = <<>>
    /\ vertices = <<>>
    /\ new_vertices = <<>>
    /\ respective_intermediate_vertices = <<>>
    /\ transitions = <<>>
    /\ initial_vertex = ""
    /\ idx = 0
    /\ i = 0

\* line 338: the set {(0.5, c1), (0.5, c2)}
TwoHalves(c1, c2) == {<<Frac(1, 2), c1>>, <<Frac(1, 2), c2>>}

\* lines 332-339: one pass of the inner loop
RandomTransition ==
    /\ pc = "random"
    /\ LET outgoing == calls[1].number_of_outgoing_transitions
           done     == Len(spg.transitions)
           vertex   == spg.vertices[(done \div outgoing) + 1].name
           action   == RandomActionName(done % outgoing)
       IN  /\ done < Len(spg.vertices) * outgoing
           /\ \E coin \in 0..1, c1, c2 \in {v.name : v \in Range(spg.vertices)} :
                 spg' = [spg EXCEPT !.transitions =
                            Append(@, SpgTransition(vertex, action, vertex,
                                          IF coin = 1 THEN {<<Frac(1, 1), c1>>}
                                          ELSE TwoHalves(c1, c2),
                                          action))]
    /\ UNCHANGED <<epsilon, max_d, pc, alphas, vertices, new_vertices,
                   respective_intermediate_vertices, transitions, initial_vertex,
                   idx, i, calls>>

\* lines 340-341: the initial vertex is drawn and the game returned
RandomReturn ==
    /\ pc = "random"
    /\ Len(spg.transitions) = Len(spg.vertices) * calls[1].number_of_outgoing_transitions
    /\ \E c \in {v.name : v \in Range(spg.vertices)} :
          spg' = [spg EXCEPT !.init_vertex = c]
    /\ pc' = "random_done"
    /\ UNCHANGED <<epsilon, max_d, alphas, vertices, new_vertices,
                   respective_intermediate_vertices, transitions, initial_vertex,
                   idx, i, calls>>

NextRandom ==
    \/ RandomTransition
    \/ RandomReturn

SpecRandom == InitRandom /\ [][NextRandom]_vars

(***************************************************************************)
(* create_frozen_lake_spg(columns, rows, point0, point1, share_of_holes),  *)
(* lines 79-118: calls holds the arguments and the locals of the call, a   *)
(* point None is <<>>, the field is a function of the cells, and every     *)
(* random.randint is a choice over its outcomes.  The arguments are those  *)
(* the validation of lines 80-90 accepts; share_of_holes is a number of    *)
(* quarters, for which columns * rows * share_of_holes is exact in floats. *)
(***************************************************************************)
MaxGrid == 2

Cells(columns, rows) == (0..(columns - 1)) \X (0..(rows - 1))

Quarters == 4

Lake == calls[1]

LakeCells == Cells(Lake.columns, Lake.rows)

LakeUnchanged ==
    UNCHANGED <<spg, epsilon, max_d, alphas, vertices, new_vertices,
                respective_intermediate_vertices, transitions, initial_vertex, idx, i>>

InitLake ==
    /\ \E columns, rows \in 1..MaxGrid : \E share \in 0..Quarters :
          /\ columns * rows >= 2
          /\ \E point0, point1 \in {<<>>} \cup Cells(columns, rows) :
                /\ (point0 # <<>> /\ point1 # <<>>) => point0 # point1
                /\ calls = <<[columns |-> columns, rows |-> rows,
                              point0 |-> point0, point1 |-> point1,
                              share_of_holes |-> share,
                              field |-> [c \in Cells(columns, rows) |-> 2],
                              number_of_holes |-> 0, xy |-> <<>>]>>
    /\ pc = "lake_point0"
    /\ spg = [vertices |-> <<>>, transitions |-> <<>>, init_vertex |-> ""]
    /\ epsilon = None
    /\ max_d = DEFAULT_MAX_D
    /\ alphas = <<>>
    /\ vertices = <<>>
    /\ new_vertices = <<>>
    /\ respective_intermediate_vertices = <<>>
    /\ transitions = <<>>
    /\ initial_vertex = ""
    /\ idx = 0
    /\ i = 0

\* lines 91-92, and 93 when there is nothing to loop for
DrawPoint0 ==
    /\ pc = "lake_point0"
    /\ IF Lake.point0 # <<>>
       THEN /\ pc' = "lake_point1"
            /\ calls' = calls
       ELSE \E p \in LakeCells :
               /\ calls' = [calls EXCEPT ![1].point0 = p]
               /\ pc' = IF Lake.point1 # <<>> THEN "lake_point0_while" ELSE "lake_point1"
    /\ LakeUnchanged

\* lines 94-95: one pass of the loop
Point0While ==
    /\ pc = "lake_point0_while"
    /\ Lake.point0 = Lake.point1
    /\ \E p \in LakeCells : calls' = [calls EXCEPT ![1].point0 = p]
    /\ pc' = pc
    /\ LakeUnchanged

\* line 94: the loop is left
Point0WhileExit ==
    /\ pc = "lake_point0_while"
    /\ Lake.point0 # Lake.point1
    /\ pc' = "lake_point1"
    /\ calls' = calls
    /\ LakeUnchanged

\* lines 96-98
DrawPoint1 ==
    /\ pc = "lake_point1"
    /\ IF Lake.point1 # <<>>
       THEN /\ pc' = "lake_field"
            /\ calls' = calls
       ELSE \E p \in LakeCells :
               /\ calls' = [calls EXCEPT ![1].point1 = p]
               /\ pc' = IF p = Lake.point0 THEN "lake_point1_while" ELSE "lake_field"
    /\ LakeUnchanged

\* lines 99-100: one pass of the loop
Point1While ==
    /\ pc = "lake_point1_while"
    /\ Lake.point1 = Lake.point0
    /\ \E p \in LakeCells : calls' = [calls EXCEPT ![1].point1 = p]
    /\ pc' = pc
    /\ LakeUnchanged

\* line 99: the loop is left
Point1WhileExit ==
    /\ pc = "lake_point1_while"
    /\ Lake.point1 # Lake.point0
    /\ pc' = "lake_field"
    /\ calls' = calls
    /\ LakeUnchanged

\* line 103: int(columns * rows * share_of_holes)
NumberOfHoles(columns, rows, share) == (columns * rows * share) \div Quarters

\* lines 101-104
MarkPoints ==
    /\ pc = "lake_field"
    /\ calls' = [calls EXCEPT
                    ![1].field = [c \in LakeCells |->
                                     IF c = Lake.point1 THEN 1
                                     ELSE IF c = Lake.point0 THEN 0 ELSE 2],
                    ![1].number_of_holes =
                        NumberOfHoles(Lake.columns, Lake.rows, Lake.share_of_holes)]
    /\ pc' = "lake_holes"
    /\ LakeUnchanged

\* lines 109-111 and 116-118: the cell becomes a hole
PlaceHole(c) ==
    [calls EXCEPT ![1].field = [Lake.field EXCEPT ![c] = 3],
                  ![1].number_of_holes = Lake.number_of_holes - 1,
                  ![1].xy = c]

\* lines 105-112: one pass of the outer loop up to the inner loop
DrawHole ==
    /\ pc = "lake_holes"
    /\ Lake.number_of_holes > 0
    /\ \E c \in LakeCells :
          IF Lake.field[c] = 2
          THEN /\ calls' = PlaceHole(c)
               /\ pc' = pc
          ELSE /\ calls' = [calls EXCEPT ![1].xy = c]
               /\ pc' = "lake_holes_while"
    /\ LakeUnchanged

\* lines 113-115: one pass of the inner loop
HoleWhile ==
    /\ pc = "lake_holes_while"
    /\ Lake.field[Lake.xy] # 2
    /\ \E c \in LakeCells : calls' = [calls EXCEPT ![1].xy = c]
    /\ pc' = pc
    /\ LakeUnchanged

\* lines 113, 116-118: the inner loop is left
HoleWhileExit ==
    /\ pc = "lake_holes_while"
    /\ Lake.field[Lake.xy] = 2
    /\ calls' = PlaceHole(Lake.xy)
    /\ pc' = "lake_holes"
    /\ LakeUnchanged

\* line 105: the outer loop is left
HolesPlaced ==
    /\ pc = "lake_holes"
    /\ Lake.number_of_holes <= 0
    /\ pc' = "lake_placed"
    /\ calls' = calls
    /\ LakeUnchanged

NextLake ==
    \/ DrawPoint0
    \/ Point0While
    \/ Point0WhileExit
    \/ DrawPoint1
    \/ Point1While
    \/ Point1WhileExit
    \/ MarkPoints
    \/ DrawHole
    \/ HoleWhile
    \/ HoleWhileExit
    \/ HolesPlaced

\* the interpreter goes on, and a draw that can leave a loop is not missed for ever:
\* random.randint returns each of its outcomes with positive probability
SpecLake ==
    /\ InitLake /\ [][NextLake]_vars
    /\ WF_vars(NextLake)
    /\ SF_vars(Point0While /\ Lake.point0' # Lake.point1)
    /\ SF_vars(Point1While /\ Lake.point1' # Lake.point0)
    /\ SF_vars(HoleWhile /\ Lake.field[Lake.xy'] = 2)

(***************************************************************************)
(* The parts of the returned SSG, read off the final state.                *)
(***************************************************************************)
Returned == pc = "done"

SpgVertices == Range(spg.vertices)
DecisionNames == {v.name : v \in SpgVertices}
IntermediateNames ==
    {respective_intermediate_vertices[d] : d \in DOMAIN respective_intermediate_vertices}
\* the two vertices the reduction created at lines 114-127
SinkNames == (DOMAIN vertices) \ (DecisionNames \cup IntermediateNames)
WinName == CHOOSE s \in SinkNames : vertices[s].is_target
LoseName == CHOOSE s \in SinkNames : ~vertices[s].is_target
IntermediateOf(v) == respective_intermediate_vertices[v.name]
Outgoing(name) == {k \in DOMAIN transitions : k[1] = name}
Even(v) == v.priority % 2 = 0
HasBranchTo(t, name) == \E b \in t.end_vertices : b[2] = name

(***************************************************************************)
(* C1: every transition of the returned SSG, copied or synthetic, has      *)
(* branch probabilities that sum to exactly 1.                             *)
(***************************************************************************)
C1_ProbabilityConservation ==
    Returned =>
        \A k \in DOMAIN transitions : QEq(QSum(transitions[k].end_vertices), QOne)

(***************************************************************************)
(* C2: in the returned SSG every intermediate vertex has exactly one       *)
(* outgoing transition, its action is "alpha", and it has a branch to WIN  *)
(* iff the priority of the originating vertex is even, and otherwise a     *)
(* branch to LOSE.                                                         *)
(***************************************************************************)
C2_WinLoseWiring ==
    Returned =>
        \A v \in SpgVertices :
            LET m == IntermediateOf(v)
            IN  /\ Outgoing(m) = {<<m, "alpha">>}
                /\ transitions[<<m, "alpha">>].action = "alpha"
                /\ HasBranchTo(transitions[<<m, "alpha">>], WinName) <=> Even(v)
                /\ ~Even(v) => HasBranchTo(transitions[<<m, "alpha">>], LoseName)

(***************************************************************************)
(* C3: whatever the vertex names of the SPG, the alpha-probability branch  *)
(* of each synthetic alpha transition leads to the WIN sink the reduction  *)
(* created when the priority is even and to the LOSE sink it created when  *)
(* the priority is odd.                                                    *)
(***************************************************************************)
C3_AlphaBranchToCreatedSink ==
    Returned =>
        \A v \in SpgVertices :
            \E b \in transitions[<<IntermediateOf(v), "alpha">>].end_vertices :
                /\ QEq(b[1], alphas[v.priority])
                /\ b[2] = IF Even(v) THEN WinName ELSE LoseName

(***************************************************************************)
(* C4: every transition of the SPG has its copy in the returned SSG: same  *)
(* action, start the decision vertex of its start, branches the SPG        *)
(* branches with each destination replaced by that destination's           *)
(* intermediate vertex and each probability unchanged; there are as many   *)
(* copies as SPG transitions.                                              *)
(***************************************************************************)
Redirected(t) ==
    {<<b[1], IntermediateOf(CHOOSE v \in SpgVertices : v.name = b[2])>> : b \in t.end_vertices}

C4_TransitionsCopied ==
    Returned =>
        /\ \A t \in Range(spg.transitions) :
              /\ <<t.start_vertex, t.action>> \in DOMAIN transitions
              /\ LET c == transitions[<<t.start_vertex, t.action>>]
                 IN  /\ c.action = t.action
                     /\ c.start_vertex = t.start_vertex
                     /\ vertices[c.start_vertex].is_eve =
                            (CHOOSE v \in SpgVertices : v.name = t.start_vertex).is_eve
                     /\ c.end_vertices = Redirected(t)
                     /\ \A b \in c.end_vertices : b[2] \notin DecisionNames
        /\ Cardinality({k \in DOMAIN transitions : k[1] \in DecisionNames})
              = Len(spg.transitions)

C4_Witness ==
    /\ Returned
    /\ Len(spg.transitions) >= 2
    /\ \E t \in Range(spg.transitions) : Cardinality(t.end_vertices) = 2
    /\ \E v \in SpgVertices : IntermediateOf(v) # v.name \o Marker

(***************************************************************************)
(* C5: the alpha transition of the intermediate vertex of every SPG vertex *)
(* v has exactly two branches: alpha(priority of v) to a sink, and         *)
(* 1 - alpha(priority of v) back to the decision vertex of v (the SSG      *)
(* vertex with the name and the owner of v).                               *)
(***************************************************************************)
C5_TwoBranchesBackToDecision ==
    Returned =>
        \A v \in SpgVertices :
            LET t == transitions[<<IntermediateOf(v), "alpha">>]
            IN  /\ Cardinality(t.end_vertices) = 2
                /\ \E b \in t.end_vertices :
                      /\ QEq(b[1], alphas[v.priority])
                      /\ b[2] \in SinkNames
                /\ \E b \in t.end_vertices :
                      /\ QEq(b[1], QSub(QOne, alphas[v.priority]))
                      /\ b[2] = v.name
                      /\ vertices[b[2]].is_eve = v.is_eve
                      /\ b[2] # IntermediateOf(v)

(***************************************************************************)
(* C10: once compute_alphas_for_spg has returned inside spg_to_ssg, the    *)
(* key set of the alpha map is the set of the priorities of the SPG's      *)
(* vertices, so the lookup alphas[vertex.priority] never misses.           *)
(***************************************************************************)
AlphasComputed ==
    pc \in {"decision", "intermediate", "intermediate_while", "win", "win_while",
            "lose", "lose_while", "copy", "alpha", "return", "done"}

C10_AlphaMapCoversPriorities ==
    AlphasComputed => DOMAIN alphas = {v.priority : v \in SpgVertices}

C10_Witness ==
    /\ Returned
    /\ Cardinality({v.priority : v \in SpgVertices}) >= 2
    /\ \A v \in SpgVertices :
          \E b \in transitions[<<IntermediateOf(v), "alpha">>].end_vertices :
              QEq(b[1], alphas[v.priority])

(***************************************************************************)
(* Direct calls: what a call returned, and the game's true minimum         *)
(* probability.                                                            *)
(***************************************************************************)
Returns(e) == e \in DOMAIN calls /\ calls[e].error = ""
InOpenUnit(x) == QLess(QZero, x) /\ QLess(x, QOne)
ValidEpsilon(e) == ~e.is_none /\ QLess(QZero, e.value) /\ QLess(e.value, QFromInt(4))
MinProbability ==
    QMin(UNION {{b[1] : b \in t.end_vertices} : t \in Range(spg.transitions)})
Priorities == Sorted({v.priority : v \in SpgVertices})

(***************************************************************************)
(* C6: in sound mode (epsilon omitted), for every SPG with at least one    *)
(* transition, every alpha returned lies strictly between 0 and 1.         *)
(***************************************************************************)
C6_SoundAlphasInOpenUnit ==
    (Returns(None) /\ Len(spg.transitions) >= 1) =>
        \A p \in DOMAIN calls[None].alphas : InOpenUnit(calls[None].alphas[p])

(***************************************************************************)
(* C7: in epsilon mode, for every epsilon in (0,4) and every SPG with at   *)
(* least one transition, every alpha returned lies strictly between 0 and  *)
(* 1.                                                                      *)
(***************************************************************************)
C7_EpsilonAlphasInOpenUnit ==
    \A e \in DOMAIN calls :
        (ValidEpsilon(e) /\ Returns(e) /\ Len(spg.transitions) >= 1) =>
            \A p \in DOMAIN calls[e].alphas : InOpenUnit(calls[e].alphas[p])

(***************************************************************************)
(* C8: for every SPG whose minimum transition probability delta satisfies  *)
(* 0 < delta < 1, in sound mode and in epsilon mode, the alphas strictly   *)
(* decrease in rank order of the sorted distinct priorities.               *)
(***************************************************************************)
C8_AlphasStrictlyDecrease ==
    \A e \in DOMAIN calls :
        (Returns(e) /\ (e.is_none \/ ValidEpsilon(e)) /\ InOpenUnit(MinProbability)) =>
            \A k \in 1..(Len(Priorities) - 1) :
                QLess(calls[e].alphas[Priorities[k + 1]], calls[e].alphas[Priorities[k]])

(***************************************************************************)
(* C9: for a fixed SPG and cap and two epsilons 0 < e1 < e2 < 4, the alpha *)
(* of every priority under e1 is at most its alpha under e2.               *)
(***************************************************************************)
C9_EpsilonMonotone ==
    \A e1, e2 \in DOMAIN calls :
        (/\ ValidEpsilon(e1) /\ ValidEpsilon(e2) /\ QLess(e1.value, e2.value)
         /\ Returns(e1) /\ Returns(e2)) =>
            \A p \in {v.priority : v \in SpgVertices} :
                QLeq(calls[e1].alphas[p], calls[e2].alphas[p])

C9_Witness ==
    \E e1, e2 \in DOMAIN calls :
        /\ ValidEpsilon(e1) /\ ValidEpsilon(e2) /\ QLess(e1.value, e2.value)
        /\ Returns(e1) /\ Returns(e2)
        /\ Len(Priorities) >= 2
        /\ \A p \in DOMAIN calls[e1].alphas : QLess(calls[e1].alphas[p], calls[e2].alphas[p])

(***************************************************************************)
(* C11: whenever no name collision occurs (no SPG vertex name is another   *)
(* vertex's name followed by the marker, and none is "v_win" or "v_lose"), *)
(* the returned SSG has exactly 2 * |SPG.vertices| + 2 vertices.           *)
(***************************************************************************)
NoNameCollision ==
    /\ \A v, w \in SpgVertices : v.name # w.name \o Marker
    /\ DecisionNames \cap {"v_win", "v_lose"} = {}

C11_VertexCount ==
    (Returned /\ NoNameCollision) =>
        Cardinality(DOMAIN vertices) = 2 * Len(spg.vertices) + 2

C11_Witness ==
    /\ Returned
    /\ NoNameCollision
    /\ Len(spg.vertices) = 2
    /\ "a'0" \in DecisionNames
    /\ Cardinality(DOMAIN vertices) = 6

(***************************************************************************)
(* C12: in every returned SSG exactly one vertex has the target flag; it   *)
(* is the WIN sink, owned by Eve; the LOSE sink is owned by Adam and is no *)
(* target; no decision and no intermediate vertex is a target.             *)
(***************************************************************************)
Targets == {n \in DOMAIN vertices : vertices[n].is_target}

C12_OneTarget ==
    Returned =>
        /\ Cardinality(Targets) = 1
        /\ Cardinality(SinkNames) = 2
        /\ \E w, l \in SinkNames :
              /\ Targets = {w}
              /\ vertices[w].is_eve
              /\ l # w
              /\ ~vertices[l].is_eve
              /\ ~vertices[l].is_target
        /\ \A n \in DecisionNames \cup IntermediateNames : ~vertices[n].is_target

C12_Witness ==
    /\ Returned
    /\ {"v_win", "v_lose"} \subseteq DecisionNames
    /\ Targets = {"v_win0"}
    /\ ~vertices["v_lose0"].is_eve

(***************************************************************************)
(* C13: the initial vertex of the returned SSG is the decision vertex of   *)
(* the SPG's initial vertex: same name, same owner, target = false.        *)
(***************************************************************************)
SpgInitVertex == CHOOSE v \in SpgVertices : v.name = spg.init_vertex

C13_InitialVertex ==
    Returned =>
        /\ initial_vertex = spg.init_vertex
        /\ initial_vertex \in DecisionNames
        /\ vertices[initial_vertex] =
               SsgVertex(SpgInitVertex.name, SpgInitVertex.is_eve, FALSE)

C13_Witness ==
    /\ Returned
    /\ Len(spg.vertices) >= 2
    /\ spg.init_vertex # spg.vertices[1].name
    /\ initial_vertex = spg.init_vertex

(***************************************************************************)
(* C14: for every transition leaving a decision vertex u, every            *)
(* intermediate vertex the transition leads to is owned by the player      *)
(* other than u's owner.                                                   *)
(***************************************************************************)
DecisionTransitions == {k \in DOMAIN transitions : k[1] \in DecisionNames /\ k[2] # "alpha"}

C14_StrictAlternation ==
    Returned =>
        \A k \in DecisionTransitions :
            \A b \in transitions[k].end_vertices :
                vertices[b[2]].is_eve # vertices[k[1]].is_eve

(***************************************************************************)
(* C14, amended: every intermediate vertex is owned by the player other    *)
(* than the owner of the SPG vertex it was created for, so a transition    *)
(* leaving a decision vertex u leads, for each branch to an SPG vertex w,  *)
(* to a vertex owned by the player other than w's owner.                   *)
(***************************************************************************)
C14_FlippedRelativeToOrigin ==
    Returned =>
        /\ \A v \in SpgVertices : vertices[IntermediateOf(v)].is_eve = ~v.is_eve
        /\ \A k \in DecisionTransitions :
              \A c \in transitions[k].end_vertices :
                  \E w \in SpgVertices :
                      /\ c[2] = IntermediateOf(w)
                      /\ vertices[c[2]].is_eve = ~w.is_eve

C14_Witness ==
    /\ Returned
    /\ \E k \in DecisionTransitions :
          \E b \in transitions[k].end_vertices :
              vertices[b[2]].is_eve = vertices[k[1]].is_eve

(***************************************************************************)
(* C17: for every SPG with at least one transition and every cap,          *)
(* max_denom_and_min_prob returns the true, unrounded minimum of the       *)
(* probabilities of the game, and the maximum, over the distinct           *)
(* probabilities, of the denominator of the closest rational with          *)
(* denominator at most the cap.                                            *)
(***************************************************************************)
AllProbabilities ==
    UNION {{b[1] : b \in t.end_vertices} : t \in Range(spg.transitions)}

\* the rationals p/q in [0,1], in lowest terms, with q at most cap; a
\* probability whose own denominator is within the cap is among them
Candidates(f, cap) ==
    LET top == IF NToInt(f.den) <= cap THEN NToInt(f.den) ELSE cap
    IN  {c \in (0..top) \X (1..top) : c[1] <= c[2] /\ Gcd(c[1], c[2]) = 1}

\* |f - c| <= |f - d| for candidates c and d
NoFarther(f, c, d) ==
    LET fn == NToInt(f.num.mag)
        fd == NToInt(f.den)
    IN  Abs(fn * c[2] - c[1] * fd) * d[2] <= Abs(fn * d[2] - d[1] * fd) * c[2]

\* the denominators of the rationals closest to f within the cap
ClosestDenominators(f, cap) ==
    {c[2] : c \in {c \in Candidates(f, cap) :
                      \A d \in Candidates(f, cap) : NoFarther(f, c, d)}}

C17_AnalyzerPair ==
    \A cap \in DOMAIN calls :
        LET r == calls[cap]
        IN  /\ r.error = ""
            /\ \E f \in AllProbabilities : r.min_prob = f
            /\ \A f \in AllProbabilities : QLeq(r.min_prob, f)
            /\ \E f \in AllProbabilities : r.max_denominator \in ClosestDenominators(f, cap)
            /\ \A f \in AllProbabilities :
                  \E d \in ClosestDenominators(f, cap) : d <= r.max_denominator

C17_Witness ==
    \E cap \in DOMAIN calls :
        /\ calls[cap].error = ""
        /\ \E f \in AllProbabilities : NToInt(f.den) > cap
        /\ ~QEq(calls[cap].min_prob, LimitDenominator(calls[cap].min_prob, cap))
        /\ calls[cap].max_denominator > 1

(***************************************************************************)
(* C18: when the SPG has no transitions the analyzer fails, and with it    *)
(* compute_alphas_for_spg and spg_to_ssg: the call ends in the error and   *)
(* produces no minimum, no alpha map and no SSG.  The error of the code    *)
(* for the empty game is the ValueError min() raises at line 26.           *)
(***************************************************************************)
EmptyGameError == "ValueError"

C18_EmptyGameFails ==
    /\ (Len(spg.transitions) = 0 /\ pc # "start") =>
          /\ pc = EmptyGameError
          /\ ~ENABLED Next
          /\ max_denom_and_min_prob(spg, DEFAULT_MAX_D) = [error |-> EmptyGameError]
          /\ compute_alphas_for_spg(spg, epsilon, DEFAULT_MAX_D) = [error |-> EmptyGameError]
          /\ alphas = <<>>
          /\ vertices = <<>>
          /\ transitions = <<>>
          /\ initial_vertex = ""
    /\ pc = EmptyGameError => Len(spg.transitions) = 0

C18_Witness ==
    /\ pc = EmptyGameError
    /\ Len(spg.transitions) = 0
    /\ Len(spg.vertices) >= 2

(***************************************************************************)
(* C19: when the minimum transition probability of the SPG is 1, alpha     *)
(* derivation ends in a NumericDomainError instead of returning an alpha   *)
(* map.                                                                    *)
(***************************************************************************)
C19_DeterministicGameRejected ==
    \A e \in DOMAIN calls :
        QEq(MinProbability, QOne) => calls[e].error = "NumericDomainError"

(***************************************************************************)
(* C20: no step of spg_to_ssg, of the alpha derivation or of the analyzer  *)
(* it calls changes the SPG argument, whether the call returns or fails.   *)
(***************************************************************************)
C20_SpgUnchanged == [][spg' = spg]_vars

C20_Witness ==
    /\ Returned
    /\ Len(spg.transitions) >= 2
    /\ \E t \in Range(spg.transitions) :
          transitions[<<t.start_vertex, t.action>>].end_vertices # t.end_vertices

(***************************************************************************)
(* Plays on the returned SSG.  A strategy fixes one action at every vertex *)
(* that has more than one; a play moves along the branches of positive     *)
(* probability of the action taken.  The probability of reaching a vertex  *)
(* under a strategy is positive iff the vertex is reachable in this graph, *)
(* and it is 1 iff the vertex is reachable from every vertex the play can  *)
(* reach.                                                                  *)
(***************************************************************************)
Actions(name) == {k[2] : k \in Outgoing(name)}
Choosers == {n \in DOMAIN vertices : Cardinality(Actions(n)) > 1}
Strategies ==
    {s \in [Choosers -> UNION {Actions(n) : n \in Choosers}] :
        \A n \in Choosers : s[n] \in Actions(n)}
Taken(s, name) == {k \in Outgoing(name) : name \in Choosers => k[2] = s[name]}
Successors(s, name) ==
    {b[2] : b \in UNION {{c \in transitions[k].end_vertices : QLess(QZero, c[1])} :
                            k \in Taken(s, name)}}
RECURSIVE ReachableFrom(_, _)
ReachableFrom(s, S) ==
    LET T == S \cup UNION {Successors(s, n) : n \in S}
    IN  IF T = S THEN S ELSE ReachableFrom(s, T)

(***************************************************************************)
(* C15: the reduced SSG of a chain game built by create_chain_spg with     *)
(* min_prob >= 1/2 reaches WIN from the initial vertex with probability 1  *)
(* under every strategy: LOSE is not reachable from the initial vertex and *)
(* WIN is reachable from every vertex that is.                             *)
(***************************************************************************)
C15_ChainReachesWin ==
    (Returned /\ spg \in ChainGames /\ (epsilon.is_none \/ ValidEpsilon(epsilon))) =>
        \A s \in Strategies :
            /\ LoseName \notin ReachableFrom(s, {initial_vertex})
            /\ \A n \in ReachableFrom(s, {initial_vertex}) :
                  WinName \in ReachableFrom(s, {n})

C21_AlphasDeterministic ==
    pc = "orders" => \A m, n \in DOMAIN calls : calls[m] = calls[n]

C21_Witness ==
    /\ pc = "orders"
    /\ Len(calls) = 2
    /\ calls[1].error = ""
    /\ Cardinality(DOMAIN calls[2].alphas) >= 2
    /\ Cardinality(AllProbabilities) >= 3

(***************************************************************************)
(* C23: the alphas a call returns are those of the formulas, with n the    *)
(* number of vertices and delta and M the minimum probability and the      *)
(* denominator bound the analyzer returns: in sound mode                   *)
(* alpha(p0) = delta^n / D with D = 8 (n!)^2 M^(2 n^2) and                 *)
(* ratio = (1 - delta) delta^n / (D + 1); in epsilon mode                  *)
(* alpha(p0) = 4 eps delta^n / ((4 - eps) 8) and                           *)
(* ratio = (1 - delta) delta^n / (8 (4 - eps) / (4 eps) + 1); in both      *)
(* alpha(p_i) = alpha(p_(i-1)) ratio, so that the game whose priorities    *)
(* are replaced by their ranks gets the same sequence of alphas.           *)
(***************************************************************************)
Analysis == max_denom_and_min_prob(spg, max_d)

FormulaD(n, M) ==
    QMake(ZMake(FALSE, NMul(NMul(NFromInt(8), NPow(Factorial(n), 2)),
                            NPow(NFromInt(M), 2 * n * n))), <<1>>)

FormulaAlphaZero(e, n, delta, M) ==
    IF e.is_none THEN QDiv(QPow(delta, n), FormulaD(n, M))
    ELSE QDiv(QMul(QMul(QFromInt(4), e.value), QPow(delta, n)),
              QMul(QSub(QFromInt(4), e.value), QFromInt(8)))

FormulaRatio(e, n, delta, M) ==
    QDiv(QMul(QSub(QOne, delta), QPow(delta, n)),
         IF e.is_none THEN QAdd(FormulaD(n, M), QOne)
         ELSE QAdd(QDiv(QMul(QFromInt(8), QSub(QFromInt(4), e.value)),
                        QMul(QFromInt(4), e.value)), QOne))

\* the game with every priority replaced by its rank among the priorities
RankOf(priority) == CHOOSE k \in 1..Len(Priorities) : Priorities[k] = priority
Ranked ==
    [spg EXCEPT !.vertices =
        [k \in DOMAIN spg.vertices |->
            [spg.vertices[k] EXCEPT !.priority = RankOf(spg.vertices[k].priority)]]]

C23_AlphasFollowFormulas ==
    \A e \in DOMAIN calls :
        Returns(e) =>
            LET n     == Len(spg.vertices)
                delta == Analysis.min_prob
                M     == Analysis.max_denominator
                a     == calls[e].alphas
            IN  /\ QEq(a[Priorities[1]], FormulaAlphaZero(e, n, delta, M))
                /\ \A k \in 2..Len(Priorities) :
                      QEq(a[Priorities[k]],
                          QMul(a[Priorities[k - 1]], FormulaRatio(e, n, delta, M)))
                /\ \A k \in 1..Len(Priorities) :
                      QEq(a[Priorities[k]],
                          compute_alphas_for_spg(Ranked, e, max_d).alphas[k])

(***************************************************************************)
(* C24: the delta the alpha formulas are evaluated with is the minimum     *)
(* probability the analyzer returns, the true minimum of the game's        *)
(* probabilities, for every game and every cap.                            *)
(***************************************************************************)
C24_DeltaIsTrueMinimum ==
    \A e \in DOMAIN calls :
        Returns(e) =>
            /\ QEq(Analysis.min_prob, MinProbability)
            /\ QEq(DeltaMin(Analysis, max_d), Analysis.min_prob)

(***************************************************************************)
(* C22: two calls of spg_to_ssg on two independent games whose statements  *)
(* are interleaved in any way hand back the two results the same calls     *)
(* hand back when run one after the other: no statement of one call reads  *)
(* or writes what the other has written.                                   *)
(***************************************************************************)
OutcomeOf(call) == IF calls.running = call THEN Outcome(Frame) ELSE Outcome(calls.waiting)

C22_InterleavingInvisible ==
    (calls.interleaved /\ Ended(Frame) /\ Ended(calls.waiting)) =>
        /\ OutcomeOf(1) = calls.sequential[1]
        /\ OutcomeOf(2) = calls.sequential[2]

\* both calls went through a suffix search and returned, with different games
C22_Witness ==
    /\ calls.interleaved /\ Ended(Frame) /\ Ended(calls.waiting)
    /\ OutcomeOf(1).error = "" /\ OutcomeOf(2).error = ""
    /\ OutcomeOf(1) # OutcomeOf(2)
    /\ i > 0 /\ calls.waiting.i > 0

(***************************************************************************)
(* C25: every suffix search ends, and the name a created vertex gets is    *)
(* its base name (v.name + "'", "v_win", "v_lose") when no vertex already  *)
(* in the SSG has it, and otherwise base + str(i) for the smallest i >= 0  *)
(* such that no vertex already in the SSG has that name.                   *)
(***************************************************************************)
InSearch == pc \in {"intermediate_while", "win_while", "lose_while"}

SmallestFree(base, taken) ==
    CHOOSE k \in 0..Cardinality(taken) :
        /\ (base \o ToString(k)) \notin taken
        /\ \A j \in 0..(k - 1) : (base \o ToString(j)) \in taken

Assigned(base, taken) ==
    IF base \notin taken THEN base ELSE base \o ToString(SmallestFree(base, taken))

IntermediatesBefore(k) ==
    {respective_intermediate_vertices[spg.vertices[j].name] : j \in 1..(k - 1)}

WinAssigned == Assigned("v_win", DecisionNames \cup IntermediateNames)
LoseAssigned == Assigned("v_lose", DecisionNames \cup IntermediateNames \cup {WinAssigned})

NamesAsSearched ==
    /\ \A k \in 1..Len(spg.vertices) :
          spg.vertices[k].name \in DOMAIN respective_intermediate_vertices =>
              respective_intermediate_vertices[spg.vertices[k].name] =
                  Assigned(spg.vertices[k].name \o Marker,
                           DecisionNames \cup IntermediatesBefore(k))
    /\ pc \in {"lose", "lose_while"} => SinkNames = {WinAssigned}
    /\ pc \in {"copy", "alpha", "return", "done"} =>
          /\ SinkNames = {WinAssigned, LoseAssigned}
          /\ vertices[WinAssigned].is_target
          /\ ~vertices[LoseAssigned].is_target

C25_SuffixSearch == [](NamesAsSearched) /\ (InSearch ~> ~InSearch)

\* a search of the call went past a suffix in use
C25_Witness ==
    /\ pc = "done"
    /\ \/ \E v \in SpgVertices : IntermediateOf(v) = v.name \o Marker \o "1"
       \/ "v_win1" \in SinkNames
       \/ "v_lose1" \in SinkNames

(***************************************************************************)
(* C26: for a game with pairwise distinct vertex names, names that hold    *)
(* the marker followed by digits or equal "v_win" or "v_lose" included,    *)
(* the returned SSG has 2n + 2 vertices under pairwise distinct names:     *)
(* every decision vertex is still there, distinct SPG vertices have        *)
(* distinct intermediate vertices, none of which took the place of a       *)
(* decision vertex, and the two sinks are two more vertices.               *)
(***************************************************************************)
C26_DistinctNamesUnderCollisions ==
    Returned =>
        /\ Cardinality(DOMAIN vertices) = 2 * Len(spg.vertices) + 2
        /\ \A v \in SpgVertices :
              /\ vertices[v.name] = SsgVertex(v.name, v.is_eve, FALSE)
              /\ IntermediateOf(v) \notin DecisionNames
              /\ vertices[IntermediateOf(v)] = SsgVertex(IntermediateOf(v), ~v.is_eve, FALSE)
        /\ \A v, w \in SpgVertices : v # w => IntermediateOf(v) # IntermediateOf(w)
        /\ Cardinality(SinkNames) = 2
        /\ \A s \in SinkNames : vertices[s].name = s

\* a game of three vertices in which an intermediate name or a sink name was in use
C26_Witness ==
    /\ Returned
    /\ ~NoNameCollision
    /\ Len(spg.vertices) = 3
    /\ Cardinality(DOMAIN vertices) = 8

(***************************************************************************)
(* C27: a game with at least one transition in which some vertex starts    *)
(* no transition is reduced without an error; in the returned SSG the      *)
(* decision vertex of such a vertex has no outgoing transition, and its    *)
(* intermediate vertex has its alpha transition.                           *)
(***************************************************************************)
Stuck == {v \in SpgVertices : \A t \in Range(spg.transitions) : t.start_vertex # v.name}

Raised == Ended(Frame) /\ pc # "done"

C27_DeadlockedVertexKept ==
    (spg.transitions # <<>> /\ Stuck # {}) =>
        /\ ~Raised
        /\ Returned =>
              \A v \in Stuck :
                  /\ v.name \in DOMAIN vertices
                  /\ Outgoing(v.name) = {}
                  /\ <<IntermediateOf(v), "alpha">> \in DOMAIN transitions
                  /\ Outgoing(IntermediateOf(v)) = {<<IntermediateOf(v), "alpha">>}
                  /\ transitions[<<IntermediateOf(v), "alpha">>].start_vertex
                         = IntermediateOf(v)

\* a returned SSG with two deadlocked decision vertices, of a game with a name in use
C27_Witness ==
    /\ Returned
    /\ spg.transitions # <<>>
    /\ Cardinality(Stuck) = 2
    /\ ~NoNameCollision

(***************************************************************************)
(* C28: in the games create_chain_spg and create_mutex_spg build, every    *)
(* transition is stored under the key of its own start vertex and action   *)
(* and no two transitions have the same start vertex and action, so that   *)
(* the returned SSG has one copied transition for each transition of the   *)
(* game, one under every key of the game.                                  *)
(***************************************************************************)
C28_BenchmarkGamesWellKeyed ==
    (spg \in ChainGames \/ spg = create_mutex_spg) =>
        /\ \A t \in Range(spg.transitions) : t.key = <<t.start_vertex, t.action>>
        /\ \A j, k \in DOMAIN spg.transitions :
              j # k => <<spg.transitions[j].start_vertex, spg.transitions[j].action>>
                           # <<spg.transitions[k].start_vertex, spg.transitions[k].action>>
        /\ Returned =>
              /\ Cardinality(DecisionTransitions) = Len(spg.transitions)
              /\ \A t \in Range(spg.transitions) : t.key \in DOMAIN transitions

(***************************************************************************)
(* C29: every game create_random_spg returns, whatever its random choices, *)
(* is a valid input of the reduction: the distribution of each transition  *)
(* is a set of (probability, vertex) pairs whose probabilities are in      *)
(* (0, 1] and sum to exactly 1.                                            *)
(***************************************************************************)
C29_RandomGameValid ==
    pc = "random_done" =>
        \A t \in Range(spg.transitions) :
            /\ \A b \in t.end_vertices :
                  /\ QLess(QZero, b[1]) /\ ~QLess(QOne, b[1])
                  /\ b[2] \in {v.name : v \in Range(spg.vertices)}
            /\ QEq(QSum(t.end_vertices), QOne)

(***************************************************************************)
(* C30: for every grid of at least two cells and every share_of_holes the  *)
(* validation accepts, the loops that draw the two special points and      *)
(* that place int(columns * rows * share_of_holes) holes on free cells     *)
(* reach their exit: every call gets past line 118.                        *)
(***************************************************************************)
C30_FrozenLakeLoopsEnd == <>(pc = "lake_placed")

====
